---- MODULE Spec2Model ----
(***************************************************************************)
(* Tick-driven game engine of sshrpg (src/game_engine.py) over the        *)
(* PostgreSQL-backed repository (src/database.py, the `pool` branches).    *)
(*                                                                         *)
(* One tick of GameEngine._process_tick is a sequence of steps; the steps  *)
(* that await I/O let the connection tasks (add_player, remove_player,     *)
(* process_command) run before the next step.  A handler is one step.      *)
(***************************************************************************)
EXTENDS Integers, Sequences, FiniteSets, TLC

(***************************************************************************)
(* Bounds of the model                                                     *)
(***************************************************************************)
MaxTick == 8
MaxQueue == 2
MaxJoins == 2
MaxInputs == 2
MaxLevel == 3

PlayerIds == {1, 2}
InstanceIds == {1, 2}

(***************************************************************************)
(* Program constants                                                       *)
(***************************************************************************)
TempleRoom == 2
AutoAttackTicks == 3
LevelUpHealth == 10
ExpPerLevel == 100

MoveDelay == 1
AttackDelay == 2
SayDelay == 0
RestDelay == 3

PlayerDie == 1..6
MonsterDie == 1..4
\* random.random() > flee_chance: the roll either passes or fails
FleeRolls == {"pass", "fail"}

(***************************************************************************)
(* Text: a string is a sequence of one-character strings                   *)
(***************************************************************************)
UpperToLower == [c \in {"F", "B", "W"} |->
                   IF c = "F" THEN "f" ELSE IF c = "B" THEN "b" ELSE "w"]

LowerChar(c) == IF c \in DOMAIN UpperToLower THEN UpperToLower[c] ELSE c

\* str.lower()
StrLower(s) == [i \in 1..Len(s) |-> LowerChar(s[i])]

\* str.strip(): drop leading and trailing blanks
RECURSIVE StripLeft(_)
StripLeft(s) == IF s # <<>> /\ Head(s) = " " THEN StripLeft(Tail(s)) ELSE s

RECURSIVE StripRight(_)
StripRight(s) ==
    IF s # <<>> /\ s[Len(s)] = " " THEN StripRight(SubSeq(s, 1, Len(s) - 1)) ELSE s

StrStrip(s) == StripRight(StripLeft(s))

\* a in b for Python strings
IsSubstr(a, b) ==
    \E i \in 0..(Len(b) - Len(a)) : SubSeq(b, i + 1, i + Len(a)) = a

\* str.split(): the maximal blank-free runs of s
SplitWords(s) ==
    { SubSeq(s, i, j) : <<i, j>> \in
        { ij \in (1..Len(s)) \X (1..Len(s)) :
            /\ ij[1] <= ij[2]
            /\ \A k \in ij[1]..ij[2] : s[k] # " "
            /\ (ij[1] = 1 \/ s[ij[1] - 1] = " ")
            /\ (ij[2] = Len(s) \/ s[ij[2] + 1] = " ") } }

(***************************************************************************)
(* The world: rooms and monster templates held by the repository           *)
(***************************************************************************)
\* rooms 1 and 2 are created by _initialize_world, both safe zones and
\* linked north/south; room 3 is a wilderness room linked east of room 1
RoomIds == {1, 2, 3}

North == <<"n", "o", "r", "t", "h">>
South == <<"s", "o", "u", "t", "h">>
East == <<"e", "a", "s", "t">>
West == <<"w", "e", "s", "t">>

Rooms ==
    [r \in RoomIds |->
        IF r = 1 THEN [exits |-> [d \in {North, East} |-> IF d = North THEN 2 ELSE 3],
                       safe_zone |-> TRUE]
        ELSE IF r = 2 THEN [exits |-> [d \in {South} |-> 1], safe_zone |-> TRUE]
        ELSE [exits |-> [d \in {West} |-> 1], safe_zone |-> FALSE]]

Portal == <<"p", "o", "r", "t", "a", "l">>

\* AdminSystem._link_rooms: valid_directions (up and down are left out)
ValidDirections == {North, South, East, West}

\* db.link_rooms: opposite_dirs
Opposite(direction) ==
    IF direction = North THEN South
    ELSE IF direction = South THEN North
    ELSE IF direction = East THEN West
    ELSE East

BearName == <<"F", "o", "r", "e", "s", "t", " ", "B", "e", "a", "r">>
WolfName == <<"F", "o", "r", "e", "s", "t", " ", "W", "o", "l", "f">>

\* monster templates (tools/create_world.py): 1 Forest Wolf, 2 Forest Bear
Monsters ==
    [t \in {1, 2} |->
        IF t = 1 THEN [name |-> WolfName, attack |-> 8, defense |-> 3,
                       experience_reward |-> 15]
        ELSE [name |-> BearName, attack |-> 15, defense |-> 8,
              experience_reward |-> 40]]

\* db.get_monster
GetMonster(t) == Monsters[t]

\* what a player may type after `attack`
Queries == { <<"b", "e", "a", "r">>, <<"w", "o", "l", "f">> }

Directions == {East, West}

Max(a, b) == IF a >= b THEN a ELSE b
Min(a, b) == IF a <= b THEN a ELSE b

(***************************************************************************)
(* State                                                                   *)
(***************************************************************************)
VARIABLES
    current_tick,     \* GameEngine.current_tick
    players,          \* GameEngine.players: the dict's entries in insertion
                      \* order, 0 marking the slot of a deleted key
    pending_actions,  \* Player.pending_actions, by user id
    action_cooldown,  \* Player.action_cooldown, by user id
    is_online,        \* Player.is_online, by user id
    character,        \* Player.character: the in-memory snapshot
    db_character,     \* the characters table of the repository
    room_monsters,    \* the room_monsters table of the repository
    combat_sessions,  \* GameEngine.combat_sessions, in insertion order
    rooms,            \* the rooms table of the repository
    pc,               \* where the tick task is: idle (asleep), actions, combat, cleanup
    idx,              \* position of the running iteration
    iter_used,        \* size of the players dict when _process_actions began iterating
    combat_list,      \* list(self.combat_sessions.items()) of the running pass
    to_remove,        \* combat_sessions_to_remove of the running pass
    awaiting,         \* the tick task is suspended at an await
    joins,            \* number of add_player calls so far
    inputs,           \* number of inputs the connection tasks have handled since joining
    event             \* what the last step did

vars == <<current_tick, players, pending_actions, action_cooldown, is_online,
          character, db_character, room_monsters, combat_sessions, rooms, pc,
          idx, iter_used, combat_list, to_remove, awaiting, joins, inputs, event>>

NoChar == [health |-> 0, max_health |-> 0, experience |-> 0, level |-> 0,
           current_room |-> 0, strength |-> 0, constitution |-> 0]

\* a row of room_monsters that has been deleted
NoMonster == [monster_id |-> 0, room_id |-> 0, health |-> 0, max_health |-> 0]

NoEvent == [kind |-> "none", pid |-> 0, result |-> "none", attacker |-> "none",
            rounds |-> 0, target |-> 0, killed |-> "none", flee |-> "none",
            dest |-> 0, damage |-> 0, new_health |-> 0,
            room1_id |-> 0, direction |-> <<>>, room2_id |-> 0]

Ev(kind, p) == [NoEvent EXCEPT !.kind = kind, !.pid = p]

\* the saved characters the players log in with
SavedCharacters ==
    [p \in PlayerIds |->
        IF p = 1
        THEN [health |-> 12, max_health |-> 100, experience |-> 90, level |-> 1,
              current_room |-> 3, strength |-> 4, constitution |-> 10]
        ELSE [health |-> 100, max_health |-> 100, experience |-> 0, level |-> 1,
              current_room |-> 3, strength |-> 10, constitution |-> 10]]

\* the experience and health a character may have when it makes a kill
Experiences == {0, 60, 85, 99, 185, 199, 260, 285, 300, 385}
Healths == {12, 100}

\* health of the spawned instances: instance 1 is a Forest Bear, 2 a Forest Wolf
BearHealths == {5}
WolfHealths == {2}
WolfRooms == {1}

(***************************************************************************)
(* The players dict                                                        *)
(***************************************************************************)
InRegistry(p) == \E i \in 1..Len(players) : players[i] = p

Used(d) == Cardinality({i \in 1..Len(d) : d[i] # 0})

\* del self.players[p]
DictDel(d, p) == [i \in 1..Len(d) |-> IF d[i] = p THEN 0 ELSE d[i]]

(***************************************************************************)
(* Player                                                                  *)
(***************************************************************************)
\* Player.add_action: the returned value
AddActionAccepts(cooldown, queue) == cooldown <= 0

\* update_cooldown without its guard
UpdateCooldownUnguarded(cooldown) == cooldown - 1

\* Player.update_cooldown
UpdateCooldown(cooldown) == IF cooldown > 0 THEN cooldown - 1 ELSE cooldown

(***************************************************************************)
(* The combat_sessions dict                                                *)
(***************************************************************************)
HasSession(cs, p) == \E i \in 1..Len(cs) : cs[i].player_id = p

SessionOf(cs, p) == cs[CHOOSE i \in 1..Len(cs) : cs[i].player_id = p]

\* del self.combat_sessions[p]
DelSession(cs, p) == SelectSeq(cs, LAMBDA s : s.player_id # p)

\* self.combat_sessions[p] = rec
PutSession(cs, p, rec) ==
    IF HasSession(cs, p)
    THEN [i \in 1..Len(cs) |-> IF cs[i].player_id = p THEN rec ELSE cs[i]]
    ELSE Append(cs, rec)

\* CombatState(player_id, monster_instance_id, room_id, last_action_tick)
CombatState(p, m, r, tick) ==
    [player_id |-> p, monster_instance_id |-> m, room_id |-> r, rounds |-> 0,
     last_action_tick |-> tick, player_can_flee |-> TRUE]

(***************************************************************************)
(* Repository                                                              *)
(***************************************************************************)
\* db.update_character(id, updates)
UpdateCharacter(w, p, updates) ==
    [w EXCEPT !.db_character[p] =
        [f \in DOMAIN @ |-> IF f \in DOMAIN updates THEN updates[f] ELSE @[f]]]

\* db.get_room_monsters(room_id): the instance ids, by ascending id
RECURSIVE SeqOfSet(_)
SeqOfSet(S) ==
    IF S = {} THEN <<>>
    ELSE LET m == CHOOSE x \in S : \A y \in S : x <= y
         IN <<m>> \o SeqOfSet(S \ {m})

GetRoomMonsters(rm, room_id) ==
    SeqOfSet({m \in InstanceIds : rm[m] # NoMonster /\ rm[m].room_id = room_id})

\* db.update_room_monster_health
UpdateRoomMonsterHealth(w, m, health) ==
    IF w.room_monsters[m] = NoMonster THEN w
    ELSE [w EXCEPT !.room_monsters[m].health = health]

\* update_room_monster_room that leaves the instance where it is
UpdateRoomMonsterRoomSkipped(w, m, new_room_id) == w

\* db.update_room_monster_room
UpdateRoomMonsterRoom(w, m, new_room_id) ==
    IF w.room_monsters[m] = NoMonster THEN w
    ELSE [w EXCEPT !.room_monsters[m].room_id = new_room_id]

\* db.remove_room_monster
RemoveRoomMonster(w, m) == [w EXCEPT !.room_monsters[m] = NoMonster]

\* db.get_room: rooms are never deleted, so every room id in use resolves
GetRoom(r) == rooms[r]

\* the exits mapping with one key set
SetExit(exits_data, direction, room_id) ==
    [d \in DOMAIN exits_data \cup {direction} |->
        IF d = direction THEN room_id ELSE exits_data[d]]

\* link_rooms writing the exit of room1 only
LinkRoomsOneWay(rs, room1_id, direction, room2_id) ==
    IF room1_id \in DOMAIN rs
    THEN [rs EXCEPT ![room1_id].exits = SetExit(@, direction, room2_id)]
    ELSE rs

\* db.link_rooms
LinkRooms(rs, room1_id, direction, room2_id) ==
    LET rs1 == IF room1_id \in DOMAIN rs
               THEN [rs EXCEPT ![room1_id].exits = SetExit(@, direction, room2_id)]
               ELSE rs
    IN  IF direction \in ValidDirections /\ room2_id \in DOMAIN rs1
        THEN [rs1 EXCEPT ![room2_id].exits =
                            SetExit(@, Opposite(direction), room1_id)]
        ELSE rs1

(***************************************************************************)
(* Handlers.  w is the part of the state a handler reads and writes:       *)
(* [character, db_character, room_monsters, combat_sessions, event]        *)
(***************************************************************************)
MonsterOf(w, m) == GetMonster(w.room_monsters[m].monster_id)

\* GameEngine._find_target_monster: the chosen instance id, 0 for None
FindTargetMonster(w, room_list, target_name) ==
    LET target_name_lower == StrStrip(StrLower(target_name))
        NameLower(i) == StrLower(MonsterOf(w, room_list[i]).name)
        exact == {i \in 1..Len(room_list) : NameLower(i) = target_name_lower}
        matches == {i \in 1..Len(room_list) :
                       \/ IsSubstr(target_name_lower, NameLower(i))
                       \/ \E word \in SplitWords(target_name_lower) :
                              IsSubstr(word, NameLower(i))}
        First(S) == room_list[CHOOSE i \in S : \A j \in S : i <= j]
    IN  IF exact # {} THEN First(exact)
        ELSE IF matches # {} THEN First(matches)
        ELSE 0

\* _check_level_up with a loop in place of the single test
CheckLevelUpRepeated(w, p) ==
    LET c == w.character[p]
        exp_needed == c.level * ExpPerLevel
    IN  IF c.experience >= exp_needed
        THEN LET level == (c.experience \div ExpPerLevel) + 1
                 max_health == c.max_health + LevelUpHealth * (level - c.level)
                 c2 == [c EXCEPT !.level = level, !.max_health = max_health,
                                 !.health = max_health]
             IN UpdateCharacter([w EXCEPT !.character[p] = c2], p,
                    [level |-> c2.level, max_health |-> c2.max_health,
                     health |-> c2.health])
        ELSE w

\* GameEngine._check_level_up
CheckLevelUp(w, p) ==
    LET c == w.character[p]
        exp_needed == c.level * ExpPerLevel
    IN  IF c.experience >= exp_needed
        THEN LET c2 == [c EXCEPT !.level = c.level + 1,
                                 !.max_health = c.max_health + LevelUpHealth,
                                 !.health = c.max_health + LevelUpHealth]
             IN UpdateCharacter([w EXCEPT !.character[p] = c2], p,
                    [level |-> c2.level, max_health |-> c2.max_health,
                     health |-> c2.health])
        ELSE w

\* _handle_monster_death without the call of remove_room_monster
HandleMonsterDeathKeepsInstance(w, p, m) ==
    LET exp_reward == MonsterOf(w, m).experience_reward
        w1 == [w EXCEPT !.character[p].experience = @ + exp_reward]
    IN  CheckLevelUp(w1, p)

\* GameEngine._handle_monster_death
HandleMonsterDeath(w, p, m) ==
    LET exp_reward == MonsterOf(w, m).experience_reward
        w1 == [w EXCEPT !.character[p].experience = @ + exp_reward]
        w2 == CheckLevelUp(w1, p)
    IN  RemoveRoomMonster(w2, m)

\* _player_attack without the floor of 1 on the damage
PlayerAttackNoFloor(w, p, m, die) ==
    LET player_attack == w.character[p].strength + die
        monster_defense == MonsterOf(w, m).defense
        damage == player_attack - monster_defense
        new_health == w.room_monsters[m].health - damage
        w1 == UpdateRoomMonsterHealth(w, m, new_health)
        w2 == [w1 EXCEPT !.event.attacker = "player", !.event.target = m,
                         !.event.damage = damage,
                         !.event.new_health = new_health]
    IN  IF new_health <= 0
        THEN LET w3 == HandleMonsterDeath(w2, p, m)
             IN [w3 EXCEPT !.combat_sessions = DelSession(@, p),
                           !.event.killed = "monster"]
        ELSE w2

\* GameEngine._player_attack
PlayerAttack(w, p, m, die) ==
    LET player_attack == w.character[p].strength + die
        monster_defense == MonsterOf(w, m).defense
        damage == Max(1, player_attack - monster_defense)
        new_health == w.room_monsters[m].health - damage
        w1 == UpdateRoomMonsterHealth(w, m, new_health)
        w2 == [w1 EXCEPT !.event.attacker = "player", !.event.target = m,
                         !.event.damage = damage,
                         !.event.new_health = new_health]
    IN  IF new_health <= 0
        THEN LET w3 == HandleMonsterDeath(w2, p, m)
             IN [w3 EXCEPT !.combat_sessions = DelSession(@, p),
                           !.event.killed = "monster"]
        ELSE w2

\* a _handle_player_death that leaves the session of the dead in place
HandlePlayerDeathKeepsSession(w, p) ==
    LET health == w.character[p].max_health \div 2
        w2 == [w EXCEPT !.character[p].health = health,
                        !.character[p].current_room = TempleRoom]
    IN  UpdateCharacter(w2, p, [health |-> health, current_room |-> TempleRoom])

\* _handle_player_death respawning at full health
HandlePlayerDeathFullHealth(w, p) ==
    LET w1 == [w EXCEPT !.combat_sessions = DelSession(@, p)]
        health == w1.character[p].max_health
        w2 == [w1 EXCEPT !.character[p].health = health,
                         !.character[p].current_room = TempleRoom]
    IN  UpdateCharacter(w2, p, [health |-> health, current_room |-> TempleRoom])

\* GameEngine._handle_player_death
HandlePlayerDeath(w, p) ==
    LET w1 == [w EXCEPT !.combat_sessions = DelSession(@, p)]
        health == w1.character[p].max_health \div 2
        w2 == [w1 EXCEPT !.character[p].health = health,
                         !.character[p].current_room = TempleRoom]
    IN  UpdateCharacter(w2, p, [health |-> health, current_room |-> TempleRoom])

\* GameEngine._monster_attack
MonsterAttack(w, m, p, die) ==
    LET monster_attack == MonsterOf(w, m).attack + die
        player_defense == w.character[p].constitution \div 2
        damage == Max(1, monster_attack - player_defense)
        w1 == [w EXCEPT !.character[p].health = @ - damage,
                        !.event.attacker = "monster", !.event.target = m,
                        !.event.damage = damage]
    IN  IF w1.character[p].health <= 0
        THEN [HandlePlayerDeath(w1, p) EXCEPT !.event.killed = "player"]
        ELSE w1

\* _handle_attack without the safe-zone test
InSafeZoneIgnored(room_id) == FALSE

\* _handle_attack: properties.get('safe_zone', False) of the player's room
InSafeZone(room_id) == GetRoom(room_id).safe_zone

\* _handle_attack building a new CombatState on every attack
CreatesSessionAlways(cs, p) == TRUE

\* _handle_attack: player.user_id not in self.combat_sessions
CreatesSession(cs, p) == ~HasSession(cs, p)

\* GameEngine._handle_attack
HandleAttack(w, p, target_name, die, tick) ==
    LET room_id == w.character[p].current_room
        room_list == GetRoomMonsters(w.room_monsters, room_id)
        target == FindTargetMonster(w, room_list, target_name)
        w1 == IF CreatesSession(w.combat_sessions, p)
              THEN [w EXCEPT !.combat_sessions =
                        PutSession(@, p, CombatState(p, target, room_id, tick))]
              ELSE [w EXCEPT !.combat_sessions =
                        PutSession(@, p, [SessionOf(@, p) EXCEPT
                                              !.last_action_tick = tick])]
    IN  IF InSafeZone(room_id)
        THEN [w EXCEPT !.event.result = "safe_zone"]
        ELSE IF target = 0
        THEN [w EXCEPT !.event.result = "no_target"]
        ELSE PlayerAttack([w1 EXCEPT !.event.result = "attacked",
                               !.event.rounds = SessionOf(w1.combat_sessions, p).rounds],
                          p, target, die)

\* _handle_move without the return after a failed flee roll
HandleMoveFailedFleeGoesOn(w, p, direction, roll) ==
    LET current_room_id == w.character[p].current_room
        in_combat == HasSession(w.combat_sessions, p)
        combat == SessionOf(w.combat_sessions, p)
        exits == GetRoom(current_room_id).exits
        new_room_id == exits[direction]
        following == in_combat /\ \E i \in 1..Len(GetRoomMonsters(w.room_monsters, current_room_id)) :
                         GetRoomMonsters(w.room_monsters, current_room_id)[i] = combat.monster_instance_id
        wf == IF in_combat THEN [w EXCEPT !.event.flee = roll] ELSE w
        w1 == [wf EXCEPT !.character[p].current_room = new_room_id]
        w2 == UpdateCharacter(w1, p, [current_room |-> new_room_id])
        w3 == IF following
              THEN [UpdateRoomMonsterRoom(w2, combat.monster_instance_id, new_room_id)
                       EXCEPT !.combat_sessions =
                           PutSession(@, p, [combat EXCEPT !.room_id = new_room_id])]
              ELSE w2
    IN  IF in_combat /\ ~combat.player_can_flee
        THEN [w EXCEPT !.event.flee = "barred"]
        ELSE IF direction \notin DOMAIN exits
        THEN [wf EXCEPT !.event.result = "no_exit"]
        ELSE [w3 EXCEPT !.event.result = "moved", !.event.dest = new_room_id]

\* GameEngine._handle_move
HandleMove(w, p, direction, roll) ==
    LET current_room_id == w.character[p].current_room
        in_combat == HasSession(w.combat_sessions, p)
        combat == SessionOf(w.combat_sessions, p)
        exits == GetRoom(current_room_id).exits
        new_room_id == exits[direction]
        following == in_combat /\ \E i \in 1..Len(GetRoomMonsters(w.room_monsters, current_room_id)) :
                         GetRoomMonsters(w.room_monsters, current_room_id)[i] = combat.monster_instance_id
        wf == IF in_combat THEN [w EXCEPT !.event.flee = "pass"] ELSE w
        w1 == [wf EXCEPT !.character[p].current_room = new_room_id]
        w2 == UpdateCharacter(w1, p, [current_room |-> new_room_id])
        w3 == IF following
              THEN [UpdateRoomMonsterRoom(w2, combat.monster_instance_id, new_room_id)
                       EXCEPT !.combat_sessions =
                           PutSession(@, p, [combat EXCEPT !.room_id = new_room_id])]
              ELSE w2
    IN  IF in_combat /\ ~combat.player_can_flee
        THEN [w EXCEPT !.event.flee = "barred"]
        ELSE IF in_combat /\ roll = "fail"
        THEN [w EXCEPT !.event.flee = "fail"]
        ELSE IF direction \notin DOMAIN exits
        THEN [wf EXCEPT !.event.result = "no_exit"]
        ELSE [w3 EXCEPT !.event.result = "moved", !.event.dest = new_room_id]

\* the items of the world: the Health Potion of _initialize_world and a
\* weapon as /create_item makes it
Items ==
    [i \in {1, 2} |->
        IF i = 1 THEN [item_type |-> "potion", stats |-> [health |-> 25]]
        ELSE [item_type |-> "weapon", stats |-> [damage |-> 5]]]

\* GameEngine._apply_item_effect
ApplyItemEffect(w, p, item) ==
    LET c == w.character[p]
        health == IF item.item_type = "potion" /\ "health" \in DOMAIN item.stats
                  THEN Min(c.max_health, c.health + item.stats.health)
                  ELSE c.health
    IN  UpdateCharacter([w EXCEPT !.character[p].health = health], p,
                        [health |-> health])

\* a _handle_rest that adds the heal amount without the cap of max_health
HandleRestUncapped(w, p) ==
    LET c == w.character[p]
        heal_amount == c.max_health \div 4
        health == c.health + heal_amount
    IN  UpdateCharacter([w EXCEPT !.character[p].health = health], p,
                        [health |-> health])

\* GameEngine._handle_rest
HandleRest(w, p) ==
    LET c == w.character[p]
        heal_amount == c.max_health \div 4
        health == Min(c.max_health, c.health + heal_amount)
    IN  UpdateCharacter([w EXCEPT !.character[p].health = health], p,
                        [health |-> health])

\* GameEngine._execute_action
ExecuteAction(w, p, action, die, roll, tick) ==
    LET w0 == [w EXCEPT !.event = Ev(action.action_type, p)]
    IN  IF action.action_type = "move" THEN HandleMove(w0, p, action.target, roll)
        ELSE IF action.action_type = "attack"
        THEN HandleAttack(w0, p, action.target, die, tick)
        ELSE IF action.action_type = "rest" THEN HandleRest(w0, p)
        ELSE w0

\* the handlers whose first await is a repository call, which may raise
CanRaise(action) == action.action_type \in {"move", "attack", "rest"}

\* _execute_action when that repository call raises: what the handler did
\* before the call stays, the except clause reports to the player
ExecuteActionRaises(w, p, action) ==
    LET w0 == [w EXCEPT !.event = [Ev(action.action_type, p) EXCEPT
                                      !.result = "error"]]
        c == w.character[p]
    IN  IF action.action_type = "rest"
        THEN [w0 EXCEPT !.character[p].health =
                            Min(c.max_health, c.health + (c.max_health \div 4))]
        ELSE w0

\* an _execute_action without its try/except
ErrorLeavesUncaught(action) == TRUE

\* _execute_action: `except Exception` keeps the error inside
ErrorLeavesExecuteAction(action) == FALSE

(***************************************************************************)
(* Initial state: the engine after construction, the repository as the     *)
(* world tools left it                                                     *)
(***************************************************************************)
Init ==
    /\ current_tick = 0
    /\ players = <<>>
    /\ pending_actions = [p \in PlayerIds |-> <<>>]
    /\ action_cooldown = [p \in PlayerIds |-> 0]
    /\ is_online = [p \in PlayerIds |-> FALSE]
    /\ character = [p \in PlayerIds |-> NoChar]
    /\ db_character = SavedCharacters
    /\ \E bh \in BearHealths, wh \in WolfHealths, wr \in WolfRooms :
          room_monsters = [m \in InstanceIds |->
              IF m = 1
              THEN [monster_id |-> 2, room_id |-> 3, health |-> bh, max_health |-> 60]
              ELSE [monster_id |-> 1, room_id |-> wr, health |-> wh, max_health |-> 25]]
    /\ combat_sessions = <<>>
    /\ rooms = Rooms
    /\ pc = "idle"
    /\ idx = 0
    /\ iter_used = 0
    /\ combat_list = <<>>
    /\ to_remove = {}
    /\ awaiting = FALSE
    /\ joins = 0
    /\ inputs = 0
    /\ event = NoEvent

\* the handlers' view of the state, and its write-back
World == [character |-> character, db_character |-> db_character,
          room_monsters |-> room_monsters, combat_sessions |-> combat_sessions,
          event |-> NoEvent]

Commit(w) ==
    /\ character' = w.character
    /\ db_character' = w.db_character
    /\ room_monsters' = w.room_monsters
    /\ combat_sessions' = w.combat_sessions
    /\ event' = w.event

\* the connection tasks run while the tick task sleeps or awaits
ConnEnabled == pc \in {"idle", "dead"} \/ awaiting

(***************************************************************************)
(* Connection tasks                                                        *)
(***************************************************************************)
\* GameEngine.add_player, called by GameServer._enter_game with the
\* character that login read from the repository
AddPlayer(p) ==
    /\ ConnEnabled
    /\ ~InRegistry(p)
    /\ joins < MaxJoins
    /\ joins' = joins + 1
    /\ players' = Append(players, p)
    /\ pending_actions' = [pending_actions EXCEPT ![p] = <<>>]
    /\ action_cooldown' = [action_cooldown EXCEPT ![p] = 0]
    /\ is_online' = [is_online EXCEPT ![p] = TRUE]
    /\ character' = [character EXCEPT ![p] = db_character[p]]
    /\ event' = Ev("add_player", p)
    /\ UNCHANGED <<rooms, current_tick, db_character, room_monsters, combat_sessions,
                   pc, idx, iter_used, combat_list, to_remove, awaiting, inputs>>

\* a remove_player that ends the leaving player's session itself
RemovePlayerEndsSession(p) ==
    /\ ConnEnabled
    /\ InRegistry(p)
    /\ inputs < MaxInputs
    /\ inputs' = inputs + 1
    /\ players' = DictDel(players, p)
    /\ pending_actions' = [pending_actions EXCEPT ![p] = <<>>]
    /\ action_cooldown' = [action_cooldown EXCEPT ![p] = 0]
    /\ is_online' = [is_online EXCEPT ![p] = FALSE]
    /\ character' = [character EXCEPT ![p] = NoChar]
    /\ combat_sessions' = DelSession(combat_sessions, p)
    /\ event' = Ev("remove_player", p)
    /\ UNCHANGED <<rooms, current_tick, db_character, room_monsters,
                   pc, idx, iter_used, combat_list, to_remove, awaiting, joins>>

\* GameEngine.remove_player, called by GameServer._disconnect_player
RemovePlayer(p) ==
    /\ ConnEnabled
    /\ InRegistry(p)
    /\ inputs < MaxInputs
    /\ inputs' = inputs + 1
    /\ players' = DictDel(players, p)
    /\ pending_actions' = [pending_actions EXCEPT ![p] = <<>>]
    /\ action_cooldown' = [action_cooldown EXCEPT ![p] = 0]
    /\ is_online' = [is_online EXCEPT ![p] = FALSE]
    /\ character' = [character EXCEPT ![p] = NoChar]
    /\ event' = Ev("remove_player", p)
    /\ UNCHANGED <<rooms, current_tick, db_character, room_monsters, combat_sessions,
                   pc, idx, iter_used, combat_list, to_remove, awaiting, joins>>

\* Player.send_message when the connection's send raises
SendMessageFails(p) ==
    /\ ConnEnabled
    /\ InRegistry(p)
    /\ inputs < MaxInputs
    /\ inputs' = inputs + 1
    /\ is_online[p]
    /\ is_online' = [is_online EXCEPT ![p] = FALSE]
    /\ event' = Ev("send_failed", p)
    /\ UNCHANGED <<rooms, current_tick, players, pending_actions, action_cooldown,
                   character, db_character, room_monsters, combat_sessions,
                   pc, idx, iter_used, combat_list, to_remove, awaiting, joins>>

\* the Action values GameEngine.process_command builds
MoveAction(d) == [action_type |-> "move", target |-> d, tick_delay |-> MoveDelay]
AttackAction(q) == [action_type |-> "attack", target |-> q, tick_delay |-> AttackDelay]
SayAction == [action_type |-> "say", target |-> <<>>, tick_delay |-> SayDelay]
RestAction == [action_type |-> "rest", target |-> <<>>, tick_delay |-> RestDelay]

CommandActions ==
    {MoveAction(d) : d \in Directions} \cup {AttackAction(q) : q \in Queries}
        \cup {SayAction, RestAction}

\* the Action as it lies in the queue; queued_at records for the properties
\* the value of current_tick when add_action appended it
Queued(action) ==
    [action_type |-> action.action_type, target |-> action.target,
     tick_delay |-> action.tick_delay, queued_at |-> current_tick]

\* GameEngine.process_command for a queued command: Player.add_action
ProcessCommand(p, action) ==
    /\ ConnEnabled
    /\ InRegistry(p)
    /\ inputs < MaxInputs
    /\ inputs' = inputs + 1
    /\ LET accepted == AddActionAccepts(action_cooldown[p], pending_actions[p])
       IN  /\ accepted => Len(pending_actions[p]) < MaxQueue
           /\ pending_actions' =
                 IF accepted
                 THEN [pending_actions EXCEPT ![p] = Append(@, Queued(action))]
                 ELSE pending_actions
           /\ action_cooldown' =
                 IF accepted
                 THEN [action_cooldown EXCEPT ![p] = action.tick_delay]
                 ELSE action_cooldown
           /\ event' = [Ev("command", p) EXCEPT
                           !.result = IF accepted THEN "true" ELSE "false"]
    /\ UNCHANGED <<rooms, current_tick, players, is_online, character, db_character,
                   room_monsters, combat_sessions, pc, idx, iter_used,
                   combat_list, to_remove, awaiting, joins>>

\* process_command with look answered by way of the action queue
ImmediateCommandQueued(p) ==
    /\ ConnEnabled
    /\ InRegistry(p)
    /\ inputs < MaxInputs
    /\ inputs' = inputs + 1
    /\ Len(pending_actions[p]) < MaxQueue
    /\ pending_actions' = [pending_actions EXCEPT ![p] = Append(@, Queued(SayAction))]
    /\ event' = [Ev("immediate", p) EXCEPT !.result = "true"]
    /\ UNCHANGED <<rooms, current_tick, players, action_cooldown, is_online,
                   character, db_character, room_monsters, combat_sessions,
                   pc, idx, iter_used, combat_list, to_remove, awaiting, joins>>

\* GameEngine.process_command for look, stats, inventory, inv, who, help and
\* for a word it does not know: each of these handlers reads, sends to the
\* player and returns True (a send that raises is SendMessageFails)
ImmediateCommand(p) ==
    /\ ConnEnabled
    /\ InRegistry(p)
    /\ inputs < MaxInputs
    /\ inputs' = inputs + 1
    /\ event' = [Ev("immediate", p) EXCEPT !.result = "true"]
    /\ UNCHANGED <<rooms, current_tick, players, pending_actions, action_cooldown,
                   is_online, character, db_character, room_monsters, combat_sessions,
                   pc, idx, iter_used, combat_list, to_remove, awaiting, joins>>

(***************************************************************************)
(* The tick task: GameEngine._game_loop and _process_tick                  *)
(***************************************************************************)
\* a _process_tick that goes from the cooldowns straight to the combat pass
TickBeginSkipsActions ==
    /\ pc = "idle"
    /\ current_tick < MaxTick
    /\ current_tick' = current_tick + 1
    /\ action_cooldown' = [p \in PlayerIds |->
                              IF InRegistry(p) THEN UpdateCooldown(action_cooldown[p])
                              ELSE action_cooldown[p]]
    /\ pc' = "combat"
    /\ idx' = 1
    /\ iter_used' = Used(players)
    /\ awaiting' = FALSE
    /\ event' = Ev("tick", 0)
    /\ UNCHANGED <<rooms, players, pending_actions, is_online, character, db_character,
                   room_monsters, combat_sessions, combat_list, to_remove, joins, inputs>>

\* _process_tick up to the first step of _process_actions
TickBegin ==
    /\ pc = "idle"
    /\ current_tick < MaxTick
    /\ current_tick' = current_tick + 1
    /\ action_cooldown' = [p \in PlayerIds |->
                              IF InRegistry(p) THEN UpdateCooldown(action_cooldown[p])
                              ELSE action_cooldown[p]]
    /\ pc' = "actions"
    /\ idx' = 1
    /\ iter_used' = Used(players)
    /\ awaiting' = FALSE
    /\ event' = Ev("tick", 0)
    /\ UNCHANGED <<rooms, players, pending_actions, is_online, character, db_character,
                   room_monsters, combat_sessions, combat_list, to_remove, joins, inputs>>

\* the dict iterator of _process_actions finds the dict's size changed:
\* RuntimeError leaves _process_actions, _process_tick and _game_loop
GameLoopDies ==
    /\ pc = "actions"
    /\ Used(players) # iter_used
    /\ pc' = "dead"
    /\ awaiting' = FALSE
    /\ event' = Ev("loop_died", 0)
    /\ UNCHANGED <<rooms, current_tick, players, pending_actions, action_cooldown,
                   is_online, character, db_character, room_monsters,
                   combat_sessions, idx, iter_used, combat_list, to_remove, joins, inputs>>

\* the random draws an action can come to: random.randint in _player_attack
\* for an Attack, random.random in _handle_move for a Move
DiceOf(action, dice) ==
    IF action.action_type = "attack" THEN dice ELSE {1}

RollsOf(action, rolls) ==
    IF action.action_type = "move" THEN rolls ELSE {"pass"}

\* one iteration of the loop of _process_actions
ProcessActions ==
    /\ pc = "actions"
    /\ Used(players) = iter_used
    /\ idx <= Len(players)
    /\ idx' = idx + 1
    /\ LET p == players[idx]
       IN  IF p # 0 /\ pending_actions[p] # <<>> /\ action_cooldown[p] <= 0
           THEN /\ pending_actions' = [pending_actions EXCEPT ![p] = Tail(@)]
                /\ LET action == Head(pending_actions[p])
                   IN  \/ /\ \E die \in DiceOf(action, PlayerDie),
                                 roll \in RollsOf(action, FleeRolls) :
                                  Commit(ExecuteAction(World, p, action, die, roll,
                                                       current_tick))
                          /\ UNCHANGED <<rooms, pc, inputs>>
                       \/ /\ CanRaise(action)
                          /\ inputs < MaxInputs
                          /\ inputs' = inputs + 1
                          /\ Commit(ExecuteActionRaises(World, p, action))
                          /\ pc' = IF ErrorLeavesExecuteAction(action)
                                   THEN "dead" ELSE pc
                /\ awaiting' = TRUE
           ELSE /\ awaiting' = FALSE
                /\ event' = NoEvent
                /\ UNCHANGED <<rooms, pending_actions, character, db_character,
                               room_monsters, combat_sessions, pc, inputs>>
    /\ UNCHANGED <<rooms, current_tick, players, action_cooldown, is_online,
                   iter_used, combat_list, to_remove, joins>>

\* _process_actions ends, _update_monsters does nothing, _process_combat
\* copies the sessions it will visit
BeginCombat ==
    /\ pc = "actions"
    /\ Used(players) = iter_used
    /\ idx > Len(players)
    /\ pc' = "combat"
    /\ idx' = 1
    /\ combat_list' = [i \in 1..Len(combat_sessions) |-> combat_sessions[i].player_id]
    /\ to_remove' = {}
    /\ awaiting' = FALSE
    /\ event' = NoEvent
    /\ UNCHANGED <<rooms, current_tick, players, pending_actions, action_cooldown,
                   is_online, character, db_character, room_monsters,
                   combat_sessions, iter_used, joins, inputs>>

\* a resolver that makes an exchange at every pass
AutoAttackDueAlways(tick, last_action_tick) == TRUE

\* the cadence test with > in place of >=
AutoAttackDueLate(tick, last_action_tick) == tick - last_action_tick > AutoAttackTicks

\* _process_combat: current_time - combat.last_action_tick >= 3
AutoAttackDue(tick, last_action_tick) == tick - last_action_tick >= AutoAttackTicks

\* a resolver in which every automatic exchange is the player's
PlayersTurnAlways(rounds) == TRUE

\* _process_combat: combat.rounds % 2 == 0 is the player's turn
PlayersTurn(rounds) == rounds % 2 = 0

\* a resolver that never misses its target
MonsterExistsAlways(room_list, m) == TRUE

\* _process_combat: any(m['id'] == combat.monster_instance_id for m in room_monsters)
MonsterExists(room_list, m) == \E i \in 1..Len(room_list) : room_list[i] = m

\* the body of the loop of _process_combat for the session of player p;
\* present: p is in the registry and online.  Gives the state, whether p
\* joins combat_sessions_to_remove, and whether the body awaited
ProcessCombatEntry(w, p, present, die, monster_die, tick) ==
    LET combat == SessionOf(w.combat_sessions, p)
        m == combat.monster_instance_id
        room_list == GetRoomMonsters(w.room_monsters, combat.room_id)
        monster_exists == MonsterExists(room_list, m)
        w0 == [w EXCEPT !.event = [Ev("pass", p) EXCEPT !.rounds = combat.rounds]]
        w1 == IF PlayersTurn(combat.rounds)
              THEN PlayerAttack([w0 EXCEPT !.event.kind = "auto"], p, m, die)
              ELSE MonsterAttack([w0 EXCEPT !.event.kind = "auto"], m, p, monster_die)
        \* combat.last_action_tick = current_time; combat.rounds += 1
        w2 == IF HasSession(w1.combat_sessions, p)
              THEN [w1 EXCEPT !.combat_sessions =
                       PutSession(@, p, [combat EXCEPT
                                            !.last_action_tick = tick,
                                            !.rounds = combat.rounds + 1])]
              ELSE w1
        player_died == w2.character[p].health <= 0
        monster_died == w2.room_monsters[m] = NoMonster
        w3 == IF player_died THEN HandlePlayerDeath(w2, p) ELSE w2
    IN  IF ~present
        THEN [w |-> [w0 EXCEPT !.event.result = "player_gone"],
              remove |-> TRUE, awaited |-> FALSE]
        ELSE IF w.character[p].health <= 0
        THEN [w |-> [w0 EXCEPT !.event.result = "player_dead"],
              remove |-> TRUE, awaited |-> FALSE]
        ELSE IF ~monster_exists
        THEN [w |-> [w0 EXCEPT !.event.result = "target_lost"],
              remove |-> TRUE, awaited |-> TRUE]
        ELSE IF AutoAttackDue(tick, combat.last_action_tick)
        THEN [w |-> [w3 EXCEPT !.event.result = "exchange"],
              remove |-> player_died \/ monster_died, awaited |-> TRUE]
        ELSE [w |-> [w0 EXCEPT !.event.result = "waiting"],
              remove |-> FALSE, awaited |-> TRUE]

\* the side whose turn it is draws its die, the other side draws nothing
TurnDice(cs, p, players_side, dice) ==
    IF HasSession(cs, p) /\ PlayersTurn(SessionOf(cs, p).rounds) = players_side
    THEN dice ELSE {1}

\* one iteration of the loop of _process_combat
ProcessCombat ==
    /\ pc = "combat"
    /\ idx <= Len(combat_list)
    /\ idx' = idx + 1
    /\ LET p == combat_list[idx]
       IN  \E die \in TurnDice(combat_sessions, p, TRUE, PlayerDie),
              monster_die \in TurnDice(combat_sessions, p, FALSE, MonsterDie) :
               LET r == ProcessCombatEntry(World, p, InRegistry(p) /\ is_online[p],
                                           die, monster_die, current_tick)
               IN  /\ Commit(r.w)
                   /\ to_remove' = IF r.remove THEN to_remove \cup {p} ELSE to_remove
                   /\ awaiting' = r.awaited
    /\ UNCHANGED <<rooms, current_tick, players, pending_actions, action_cooldown,
                   is_online, pc, iter_used, combat_list, joins, inputs>>

\* the end of _process_combat: the sessions marked in the pass are deleted
EndCombat ==
    /\ pc = "combat"
    /\ idx > Len(combat_list)
    /\ combat_sessions' = SelectSeq(combat_sessions, LAMBDA s : s.player_id \notin to_remove)
    /\ to_remove' = {}
    /\ combat_list' = <<>>
    /\ pc' = "cleanup"
    /\ idx' = 0
    /\ awaiting' = FALSE
    /\ event' = NoEvent
    /\ UNCHANGED <<rooms, current_tick, players, pending_actions, action_cooldown,
                   is_online, character, db_character, room_monsters,
                   iter_used, joins, inputs>>

\* _cleanup_players, the empty _process_events, and the loop goes to sleep
CleanupPlayers ==
    /\ pc = "cleanup"
    /\ LET disconnected == {p \in PlayerIds : InRegistry(p) /\ ~is_online[p]}
       IN  /\ players' = [i \in 1..Len(players) |->
                             IF players[i] \in disconnected THEN 0 ELSE players[i]]
           /\ pending_actions' = [p \in PlayerIds |->
                                     IF p \in disconnected THEN <<>> ELSE pending_actions[p]]
           /\ action_cooldown' = [p \in PlayerIds |->
                                     IF p \in disconnected THEN 0 ELSE action_cooldown[p]]
           /\ character' = [p \in PlayerIds |->
                               IF p \in disconnected THEN NoChar ELSE character[p]]
    /\ pc' = "idle"
    /\ awaiting' = FALSE
    /\ event' = NoEvent
    /\ UNCHANGED <<rooms, current_tick, is_online, db_character, room_monsters,
                   combat_sessions, idx, iter_used, combat_list, to_remove, joins, inputs>>

Next ==
    \/ \E p \in PlayerIds : AddPlayer(p)
    \/ \E p \in PlayerIds : RemovePlayer(p)
    \/ \E p \in PlayerIds : SendMessageFails(p)
    \/ \E p \in PlayerIds, action \in CommandActions : ProcessCommand(p, action)
    \/ \E p \in PlayerIds : ImmediateCommand(p)
    \/ TickBegin
    \/ GameLoopDies
    \/ ProcessActions
    \/ BeginCombat
    \/ ProcessCombat
    \/ EndCombat
    \/ CleanupPlayers

Spec == Init /\ [][Next]_vars

(***************************************************************************)
(* A kill by a character of any level and experience: the character is    *)
(* drawn from bounded sets and _player_attack lands on an instance with    *)
(* one point of health left                                                *)
(***************************************************************************)
InitLevelUp ==
    /\ current_tick = 0
    /\ players = <<1>>
    /\ pending_actions = [p \in PlayerIds |-> <<>>]
    /\ action_cooldown = [p \in PlayerIds |-> 0]
    /\ is_online = [p \in PlayerIds |-> p = 1]
    /\ \E level \in 1..MaxLevel, experience \in Experiences, health \in Healths :
          /\ level = 1 => experience < ExpPerLevel
          /\ db_character = [SavedCharacters EXCEPT
                                ![1].level = level,
                                ![1].health = health,
                                ![1].max_health = 100 + LevelUpHealth * (level - 1)]
          /\ character = [p \in PlayerIds |->
                             IF p = 1
                             THEN [db_character[1] EXCEPT !.experience = experience]
                             ELSE NoChar]
    /\ room_monsters = [m \in InstanceIds |->
          IF m = 1
          THEN [monster_id |-> 2, room_id |-> 3, health |-> 1, max_health |-> 60]
          ELSE [monster_id |-> 1, room_id |-> 3, health |-> 1, max_health |-> 25]]
    /\ combat_sessions = <<>>
    /\ rooms = Rooms
    /\ pc = "actions"
    /\ idx = 1
    /\ iter_used = 1
    /\ combat_list = <<>>
    /\ to_remove = {}
    /\ awaiting = FALSE
    /\ joins = 1
    /\ inputs = 0
    /\ event = NoEvent

\* _handle_attack of player 1 on the instance m of the room
AttackStep(m) ==
    /\ event = NoEvent
    /\ room_monsters[m] # NoMonster
    /\ \E die \in PlayerDie :
          Commit(HandleAttack([World EXCEPT !.event = Ev("attack", 1)], 1,
                              StrLower(Monsters[room_monsters[m].monster_id].name),
                              die, current_tick))
    /\ UNCHANGED <<rooms, current_tick, players, pending_actions, action_cooldown,
                   is_online, pc, idx, iter_used, combat_list, to_remove,
                   awaiting, joins, inputs>>

NextLevelUp == \E m \in InstanceIds : AttackStep(m)

SpecLevelUp == InitLevelUp /\ [][NextLevelUp]_vars

(***************************************************************************)
(* The damage rolls on their own: the character's strength and             *)
(* constitution are drawn from bounded sets, then one blow of              *)
(* _player_attack or _monster_attack lands                                 *)
(***************************************************************************)
Strengths == {1, 4, 10, 12}
Constitutions == {0, 10, 21, 40}

InitDamage ==
    /\ current_tick = 0
    /\ players = <<1>>
    /\ pending_actions = [p \in PlayerIds |-> <<>>]
    /\ action_cooldown = [p \in PlayerIds |-> 0]
    /\ is_online = [p \in PlayerIds |-> p = 1]
    /\ \E strength \in Strengths, constitution \in Constitutions :
          /\ db_character = [SavedCharacters EXCEPT
                                ![1].strength = strength,
                                ![1].constitution = constitution,
                                ![1].health = 100]
          /\ character = [p \in PlayerIds |->
                             IF p = 1 THEN db_character[1] ELSE NoChar]
    /\ room_monsters = [m \in InstanceIds |->
          IF m = 1
          THEN [monster_id |-> 2, room_id |-> 3, health |-> 60, max_health |-> 60]
          ELSE [monster_id |-> 1, room_id |-> 3, health |-> 25, max_health |-> 25]]
    /\ combat_sessions = <<>>
    /\ rooms = Rooms
    /\ pc = "combat"
    /\ idx = 1
    /\ iter_used = 1
    /\ combat_list = <<>>
    /\ to_remove = {}
    /\ awaiting = FALSE
    /\ joins = 1
    /\ inputs = 0
    /\ event = NoEvent

\* _player_attack of player 1 on the instance m
PlayerAttackStep(m) ==
    /\ event = NoEvent
    /\ \E die \in PlayerDie :
          Commit(PlayerAttack([World EXCEPT !.event = Ev("combat", 1)], 1, m, die))
    /\ UNCHANGED <<rooms, current_tick, players, pending_actions, action_cooldown,
                   is_online, pc, idx, iter_used, combat_list, to_remove,
                   awaiting, joins, inputs>>

\* _monster_attack of the instance m on player 1
MonsterAttackStep(m) ==
    /\ event = NoEvent
    /\ \E die \in MonsterDie :
          Commit(MonsterAttack([World EXCEPT !.event = Ev("combat", 1)], m, 1, die))
    /\ UNCHANGED <<rooms, current_tick, players, pending_actions, action_cooldown,
                   is_online, pc, idx, iter_used, combat_list, to_remove,
                   awaiting, joins, inputs>>

NextDamage ==
    \/ \E m \in InstanceIds : PlayerAttackStep(m)
    \/ \E m \in InstanceIds : MonsterAttackStep(m)

SpecDamage == InitDamage /\ [][NextDamage]_vars

(***************************************************************************)
(* Target selection on its own: the templates and rooms of the two         *)
(* instances and the words typed after `attack` are drawn from bounded     *)
(* sets, player 1 (in room 3) may have hit instance 1 at tick 2 and be     *)
(* fighting it, then the Attack of player 1 queued since is executed       *)
(***************************************************************************)
TargetQueries ==
    { <<"F", "o", "r", "e", "s", "t", " ", "B", "e", "a", "r">>,
      <<"f", "o", "r", "e", "s", "t", " ", "w", "o", "l", "f">>,
      <<"f", "o", "r", "e", "s", "t">>,
      <<"e", "a", "r">>,
      <<"b", "i", "g", " ", "e", "a", "r">>,
      <<"w", "o", "l", "f", " ", "c", "u", "b">>,
      <<"d", "r", "a", "g", "o", "n">>,
      <<"b", "e", "a", "r">>,
      <<"a", " ", "w", "o", "l", "f">> }

InitTarget ==
    /\ current_tick = 2 * AttackDelay
    /\ players = <<1>>
    /\ \E q \in TargetQueries :
          pending_actions = [p \in PlayerIds |->
              IF p = 1
              THEN << [action_type |-> "attack", target |-> q,
                       tick_delay |-> AttackDelay, queued_at |-> AttackDelay] >>
              ELSE <<>>]
    /\ action_cooldown = [p \in PlayerIds |-> 0]
    /\ is_online = [p \in PlayerIds |-> p = 1]
    /\ db_character = SavedCharacters
    /\ character = [p \in PlayerIds |-> IF p = 1 THEN db_character[1] ELSE NoChar]
    /\ \E t1 \in {1, 2}, t2 \in {1, 2}, r2 \in {1, 3}, h2 \in {25, 1},
          fighting \in BOOLEAN :
          /\ room_monsters = [m \in InstanceIds |->
                IF m = 1
                THEN [monster_id |-> t1, room_id |-> 3,
                      health |-> IF fighting THEN 20 ELSE 25, max_health |-> 25]
                ELSE [monster_id |-> t2, room_id |-> r2, health |-> h2,
                      max_health |-> 25]]
          /\ combat_sessions = IF fighting
                               THEN << CombatState(1, 1, 3, AttackDelay) >>
                               ELSE <<>>
    /\ rooms = Rooms
    /\ pc = "actions"
    /\ idx = 1
    /\ iter_used = 1
    /\ combat_list = <<>>
    /\ to_remove = {}
    /\ awaiting = FALSE
    /\ joins = 1
    /\ inputs = 0
    /\ event = NoEvent

\* _process_actions popping the Attack of player 1 and _execute_action
\* handing it to _handle_attack
TargetStep ==
    /\ pending_actions[1] # <<>>
    /\ action_cooldown[1] <= 0
    /\ LET action == Head(pending_actions[1])
       IN  /\ pending_actions' = [pending_actions EXCEPT ![1] = Tail(@)]
           /\ \E die \in PlayerDie :
                 Commit(HandleAttack([World EXCEPT !.event = Ev("attack", 1)], 1,
                                     action.target, die, current_tick))
    /\ UNCHANGED <<rooms, current_tick, players, action_cooldown, is_online,
                   pc, idx, iter_used, combat_list, to_remove, awaiting,
                   joins, inputs>>

NextTarget == TargetStep

SpecTarget == InitTarget /\ [][NextTarget]_vars

(***************************************************************************)
(* The world editor: an administrator types /link_rooms                    *)
(***************************************************************************)
\* the room ids and directions an administrator may type
TypedRoomIds == RoomIds \cup {4}
TypedDirections == ValidDirections \cup {Portal}

\* AdminSystem._link_rooms
AdminLinkRooms(room1_id, direction, room2_id) ==
    /\ inputs < MaxInputs
    /\ inputs' = inputs + 1
    /\ LET valid == /\ direction \in ValidDirections
                    /\ room1_id \in DOMAIN rooms
                    /\ room2_id \in DOMAIN rooms
       IN  /\ rooms' = IF valid THEN LinkRooms(rooms, room1_id, direction, room2_id)
                       ELSE rooms
           /\ event' = [Ev("link_rooms", 0) EXCEPT
                           !.result = IF valid THEN "linked" ELSE "refused",
                           !.room1_id = room1_id, !.direction = direction,
                           !.room2_id = room2_id]
    /\ UNCHANGED <<current_tick, players, pending_actions, action_cooldown,
                   is_online, character, db_character, room_monsters,
                   combat_sessions, pc, idx, iter_used, combat_list, to_remove,
                   awaiting, joins>>

NextLinks ==
    \E room1_id \in TypedRoomIds, direction \in TypedDirections,
       room2_id \in TypedRoomIds : AdminLinkRooms(room1_id, direction, room2_id)

SpecLinks == Init /\ [][NextLinks]_vars

(***************************************************************************)
(* The health of a character: player 1 joins with any health and           *)
(* max_health of 1 <= health <= max_health, max_health >= 2, and the       *)
(* handlers that write health run in any order, MaxSteps times; both       *)
(* monsters are one hit from death                                         *)
(***************************************************************************)
MaxHealths == {2, 3, 41, 100}
JoinHealths == {1, 2, 12, 41, 100}
MaxSteps == 4

InitHealth ==
    /\ current_tick = 0
    /\ players = <<1>>
    /\ pending_actions = [p \in PlayerIds |-> <<>>]
    /\ action_cooldown = [p \in PlayerIds |-> 0]
    /\ is_online = [p \in PlayerIds |-> p = 1]
    /\ \E max_health \in MaxHealths, health \in JoinHealths :
          /\ health <= max_health
          /\ db_character = [SavedCharacters EXCEPT
                                ![1].max_health = max_health,
                                ![1].health = health]
          /\ character = [p \in PlayerIds |->
                             IF p = 1 THEN db_character[1] ELSE NoChar]
    /\ room_monsters = [m \in InstanceIds |->
          IF m = 1
          THEN [monster_id |-> 2, room_id |-> 3, health |-> 1, max_health |-> 60]
          ELSE [monster_id |-> 1, room_id |-> 3, health |-> 1, max_health |-> 25]]
    /\ combat_sessions = <<>>
    /\ rooms = Rooms
    /\ pc = "actions"
    /\ idx = 1
    /\ iter_used = 1
    /\ combat_list = <<>>
    /\ to_remove = {}
    /\ awaiting = FALSE
    /\ joins = 1
    /\ inputs = 0
    /\ event = NoEvent

\* _execute_action: rest
RestStep ==
    /\ inputs < MaxSteps
    /\ inputs' = inputs + 1
    /\ Commit(HandleRest([World EXCEPT !.event = Ev("rest", 1)], 1))
    /\ UNCHANGED <<rooms, current_tick, players, pending_actions, action_cooldown,
                   is_online, pc, idx, iter_used, combat_list, to_remove,
                   awaiting, joins>>

\* _handle_use_item finds the item in the inventory and applies it
UseItemStep(i) ==
    /\ inputs < MaxSteps
    /\ inputs' = inputs + 1
    /\ Commit(ApplyItemEffect([World EXCEPT !.event = Ev("use", 1)], 1, Items[i]))
    /\ UNCHANGED <<rooms, current_tick, players, pending_actions, action_cooldown,
                   is_online, pc, idx, iter_used, combat_list, to_remove,
                   awaiting, joins>>

\* _player_attack of player 1 on the instance m, which may die and lift
\* the player a level
HitMonsterStep(m) ==
    /\ inputs < MaxSteps
    /\ inputs' = inputs + 1
    /\ room_monsters[m] # NoMonster
    /\ \E die \in PlayerDie :
          Commit(PlayerAttack([World EXCEPT !.event = Ev("combat", 1)], 1, m, die))
    /\ UNCHANGED <<rooms, current_tick, players, pending_actions, action_cooldown,
                   is_online, pc, idx, iter_used, combat_list, to_remove,
                   awaiting, joins>>

\* _monster_attack of the instance m on player 1, who may die
HitPlayerStep(m) ==
    /\ inputs < MaxSteps
    /\ inputs' = inputs + 1
    /\ room_monsters[m] # NoMonster
    /\ \E die \in MonsterDie :
          Commit(MonsterAttack([World EXCEPT !.event = Ev("combat", 1)], m, 1, die))
    /\ UNCHANGED <<rooms, current_tick, players, pending_actions, action_cooldown,
                   is_online, pc, idx, iter_used, combat_list, to_remove,
                   awaiting, joins>>

NextHealth ==
    \/ RestStep
    \/ \E i \in DOMAIN Items : UseItemStep(i)
    \/ \E m \in InstanceIds : HitMonsterStep(m)
    \/ \E m \in InstanceIds : HitPlayerStep(m)

SpecHealth == InitHealth /\ [][NextHealth]_vars

TypeOK ==
    /\ current_tick \in 0..MaxTick
    /\ pc \in {"idle", "actions", "combat", "cleanup", "dead"}
    /\ \A p \in PlayerIds : Len(pending_actions[p]) <= MaxQueue

(***************************************************************************)
(* Properties                                                              *)
(***************************************************************************)
\* C1: every player's pending-action queue holds at most one action
C1_QueueAtMostOne ==
    \A p \in PlayerIds : Len(pending_actions[p]) <= 1

\* C2: add_action returns False whenever the player's action_cooldown > 0
\* or the queue is non-empty, and a refused call leaves the queue and the
\* cooldown unchanged
C2_BusyIsRefused ==
    [][event'.kind = "command" =>
          LET p == event'.pid
          IN  /\ (action_cooldown[p] > 0 \/ pending_actions[p] # <<>>)
                     => event'.result = "false"
              /\ event'.result = "false"
                     => /\ pending_actions'[p] = pending_actions[p]
                        /\ action_cooldown'[p] = action_cooldown[p]]_vars

\* C3: action_cooldown is never negative; a tick lowers a positive cooldown
\* by exactly 1 and leaves a zero one at 0; the only other change is an
\* accepted enqueue, which sets it to the accepted action's tick_delay
C3_CooldownSteps ==
    [][\A p \in PlayerIds :
          /\ action_cooldown[p] >= 0
          /\ action_cooldown'[p] >= 0
          /\ (InRegistry(p) /\ \E i \in 1..Len(players') : players'[i] = p) =>
                IF event'.kind = "tick"
                THEN action_cooldown'[p] =
                         IF action_cooldown[p] > 0 THEN action_cooldown[p] - 1 ELSE 0
                ELSE IF event'.kind = "command" /\ event'.pid = p
                        /\ event'.result = "true"
                THEN /\ Len(pending_actions'[p]) = Len(pending_actions[p]) + 1
                     /\ action_cooldown'[p] =
                            pending_actions'[p][Len(pending_actions'[p])].tick_delay
                ELSE action_cooldown'[p] = action_cooldown[p]]_vars

\* a tick has just lowered the cooldown of a queued Attack from 2 to 1
C3_Witness ==
    /\ event.kind = "tick"
    /\ \E p \in PlayerIds :
          /\ InRegistry(p)
          /\ action_cooldown[p] = 1
          /\ pending_actions[p] # <<>>
          /\ pending_actions[p][1].action_type = "attack"

SessionsOfPlayer(cs, p) == {i \in 1..Len(cs) : cs[i].player_id = p}

\* C4: a player has at most one CombatSession, and an Attack executed while
\* the player already has a session neither adds a second session nor
\* replaces the existing one (it stays bound to the same monster instance
\* and room with the same rounds, unless the attack ends it)
C4_OneSessionKept ==
    [][/\ \A p \in PlayerIds : Cardinality(SessionsOfPlayer(combat_sessions', p)) <= 1
       /\ \A p \in PlayerIds :
             (event'.kind = "attack" /\ event'.pid = p /\ HasSession(combat_sessions, p)
                 /\ HasSession(combat_sessions', p))
             => LET old == SessionOf(combat_sessions, p)
                    new == SessionOf(combat_sessions', p)
                IN  /\ new.monster_instance_id = old.monster_instance_id
                    /\ new.room_id = old.room_id
                    /\ new.rounds = old.rounds
                    /\ new.player_can_flee = old.player_can_flee]_vars

\* a manual Attack has landed in a session that had already seen an exchange
C4_Witness ==
    /\ event.kind = "attack"
    /\ event.result = "attacked"
    /\ HasSession(combat_sessions, event.pid)
    /\ SessionOf(combat_sessions, event.pid).rounds >= 1

\* C5: an Attack executed in a room with safe_zone = true is refused
\* whatever the target: no session is created and no monster changes
C5_SafeZoneRefuses ==
    [][\A p \in PlayerIds :
          (event'.kind = "attack" /\ event'.pid = p
              /\ Rooms[character[p].current_room].safe_zone)
          => /\ combat_sessions' = combat_sessions
             /\ room_monsters' = room_monsters]_vars

\* an Attack was executed in a safe room in which a monster instance stands
C5_Witness ==
    /\ event.kind = "attack"
    /\ Rooms[character[event.pid].current_room].safe_zone
    /\ \E m \in InstanceIds :
          /\ room_monsters[m] # NoMonster
          /\ room_monsters[m].room_id = character[event.pid].current_room

\* C6 as stated: in every exchange, manual or automatic, the player attacks
\* when the session's rounds is even and the monster when it is odd
C6_ParityDecidesEveryExchange ==
    event.attacker # "none" =>
        (event.attacker = "player" <=> event.rounds % 2 = 0)

\* C6 amended: in every automatic exchange the attacker is fixed by the
\* parity of rounds; a manual Attack is always the player's attack
C6_ParityDecidesAutoExchange ==
    /\ event.kind = "auto" =>
          (event.attacker = "player" <=> event.rounds % 2 = 0)
    /\ (event.kind = "attack" /\ event.result = "attacked") =>
          event.attacker = "player"

\* the monster has attacked in an automatic exchange on an odd round
C6_Witness ==
    /\ event.kind = "auto"
    /\ event.attacker = "monster"
    /\ event.rounds % 2 = 1

\* C7: for a session whose player is online and alive and whose monster is
\* in the session's room, a resolver pass performs an automatic exchange
\* exactly when current_tick - last_action_tick >= 3; the exchange leaves
\* last_action_tick = current_tick and rounds one higher, and a pass
\* without exchange leaves the session unchanged
C7_AutoAttackCadence ==
    [][\A p \in PlayerIds :
          (/\ event'.kind \in {"pass", "auto"}
           /\ event'.pid = p
           /\ InRegistry(p) /\ is_online[p]
           /\ character[p].health > 0
           /\ LET c == SessionOf(combat_sessions, p)
              IN  /\ room_monsters[c.monster_instance_id] # NoMonster
                  /\ room_monsters[c.monster_instance_id].room_id = c.room_id)
          => LET c == SessionOf(combat_sessions, p)
             IN  /\ (event'.kind = "auto") <=>
                        (current_tick - c.last_action_tick >= 3)
                 /\ (event'.kind = "auto") <=> (event'.attacker # "none")
                 /\ (event'.kind = "auto" /\ HasSession(combat_sessions', p)) =>
                        /\ SessionOf(combat_sessions', p).last_action_tick = current_tick
                        /\ SessionOf(combat_sessions', p).rounds = c.rounds + 1
                 /\ (event'.kind = "pass") =>
                        /\ combat_sessions' = combat_sessions
                        /\ room_monsters' = room_monsters
                        /\ character' = character]_vars

\* an automatic exchange took place and its session goes on
C7_Witness ==
    /\ event.kind = "auto"
    /\ HasSession(combat_sessions, event.pid)
    /\ SessionOf(combat_sessions, event.pid).last_action_tick = current_tick
    /\ SessionOf(combat_sessions, event.pid).rounds >= 1

\* C8: when a player's attack brings a monster instance's health to 0 or
\* below, the instance is removed, the attacker's experience grows by the
\* monster's experience_reward and the attacker's session is removed, all
\* in that step
C8_MonsterDeath ==
    [][\A p \in PlayerIds, m \in InstanceIds :
          (/\ event'.attacker = "player"
           /\ event'.pid = p
           /\ event'.target = m
           /\ room_monsters[m].health - event'.damage <= 0)
          => /\ room_monsters'[m] = NoMonster
             /\ character'[p].experience =
                   character[p].experience
                       + Monsters[room_monsters[m].monster_id].experience_reward
             /\ ~HasSession(combat_sessions', p)]_vars

\* a player's attack has just killed a monster instance
C8_Witness ==
    /\ event.attacker = "player"
    /\ event.killed = "monster"
    /\ room_monsters[event.target] = NoMonster

\* C9: when a monster's attack brings a player's health to 0 or below, the
\* player's session is removed, health becomes max_health \div 2 and
\* current_room the temple room 2, and both are persisted
C9_PlayerDeath ==
    [][\A p \in PlayerIds :
          (/\ event'.attacker = "monster"
           /\ event'.pid = p
           /\ character[p].health - event'.damage <= 0)
          => /\ ~HasSession(combat_sessions', p)
             /\ character'[p].health = character[p].max_health \div 2
             /\ character'[p].current_room = 2
             /\ db_character'[p].health = character[p].max_health \div 2
             /\ db_character'[p].current_room = 2]_vars

\* a monster's attack has just killed a player
C9_Witness ==
    /\ event.attacker = "monster"
    /\ event.killed = "player"
    /\ character[event.pid].current_room = 2

C11_FailedFleeChangesNothing ==
    [][\A p \in PlayerIds :
          (event'.kind = "move" /\ event'.pid = p /\ event'.flee = "fail")
          => /\ character'[p].current_room = character[p].current_room
             /\ db_character'[p].current_room = db_character[p].current_room
             /\ HasSession(combat_sessions', p)
             /\ SessionOf(combat_sessions', p) = SessionOf(combat_sessions, p)
             /\ \A m \in InstanceIds : room_monsters'[m] = room_monsters[m]]_vars

\* a Move towards an existing exit has just failed its flee roll
C11_Witness ==
    /\ event.kind = "move"
    /\ event.flee = "fail"
    /\ HasSession(combat_sessions, event.pid)
    /\ character[event.pid].current_room = 3
    /\ room_monsters[SessionOf(combat_sessions, event.pid).monster_instance_id].room_id = 3

\* C12: a resolver pass removes every session whose monster instance is no
\* longer in the session's room - so when one of two players fighting the
\* same instance kills it, the other's session is ended as target-lost by
\* the next pass: the pass visits every session, a visit that finds the
\* instance missing makes no exchange and marks the session, and the end
\* of the pass removes every marked session
C12_TargetLostEndsSession ==
    [][/\ (pc = "actions" /\ pc' = "combat") =>
             \A p \in PlayerIds :
                 HasSession(combat_sessions, p) =>
                     \E i \in 1..Len(combat_list') : combat_list'[i] = p
       /\ \A p \in PlayerIds :
             (/\ event'.kind \in {"pass", "auto"}
              /\ event'.pid = p
              /\ HasSession(combat_sessions, p)
              /\ LET c == SessionOf(combat_sessions, p)
                 IN  \/ room_monsters[c.monster_instance_id] = NoMonster
                     \/ room_monsters[c.monster_instance_id].room_id # c.room_id)
             => /\ event'.attacker = "none"
                /\ p \in to_remove'
                /\ room_monsters' = room_monsters
       /\ (pc = "combat" /\ pc' = "cleanup") =>
             \A p \in to_remove : ~HasSession(combat_sessions', p)
       /\ (pc = "combat" /\ pc' = "combat") => to_remove \subseteq to_remove']_vars

\* two players fought the same instance, one killed it, and the resolver
\* has just found the other's session without its target
C12_Witness ==
    /\ event.kind = "pass"
    /\ event.result = "target_lost"
    /\ LET c == SessionOf(combat_sessions, event.pid)
       IN  /\ room_monsters[c.monster_instance_id] = NoMonster
           /\ \E q \in PlayerIds \ {event.pid} :
                 /\ InRegistry(q)
                 /\ ~HasSession(combat_sessions, q)
                 /\ character[q].experience =
                       SavedCharacters[q].experience + Monsters[2].experience_reward

\* C13: on a monster death, if the player's new experience is at least
\* level*100 then level grows by exactly 1, max_health by 10 and health is
\* the new max_health; otherwise level, max_health and health are unchanged
C13_LevelUpOnce ==
    [][\A p \in PlayerIds :
          (event'.killed = "monster" /\ event'.pid = p)
          => LET old == character[p]
                 new == character'[p]
             IN  IF new.experience >= old.level * 100
                 THEN /\ new.level = old.level + 1
                      /\ new.max_health = old.max_health + 10
                      /\ new.health = new.max_health
                 ELSE /\ new.level = old.level
                      /\ new.max_health = old.max_health
                      /\ new.health = old.health]_vars

\* a kill has raised a level-2 character to level 3 although its
\* experience has passed the threshold of level 3 as well
C13_Witness ==
    /\ event.killed = "monster"
    /\ character[event.pid].level = 3
    /\ character[event.pid].max_health = 120
    /\ character[event.pid].experience >= 300

\* C14: an error raised while one player's action executes is caught
\* inside that execution: the action is consumed, the loop over the
\* players goes on with the next player in the same tick, and no other
\* player, no session and no monster is touched
C14_ActionErrorIsContained ==
    [][\A p \in PlayerIds :
          (event'.result = "error" /\ event'.pid = p)
          => /\ pc = "actions" /\ pc' = "actions"
             /\ idx' = idx + 1
             /\ current_tick' = current_tick
             /\ players' = players
             /\ pending_actions'[p] = Tail(pending_actions[p])
             /\ \A q \in PlayerIds \ {p} :
                   /\ character'[q] = character[q]
                   /\ pending_actions'[q] = pending_actions[q]
                   /\ action_cooldown'[q] = action_cooldown[q]
             /\ combat_sessions' = combat_sessions
             /\ room_monsters' = room_monsters
             /\ is_online' = is_online]_vars

\* an action has just failed and the loop stands on the next player
C14_Witness ==
    /\ event.result = "error"
    /\ pc = "actions"
    /\ idx <= Len(players)
    /\ players[idx] # 0
    /\ players[idx] # event.pid

\* C15: no error halts the tick scheduler: whatever fails during a tick,
\* and whenever a connection task adds or removes a player while the tick
\* is suspended inside its iteration over the players, the loop is still
\* there to run the following tick
C15_LoopNeverHalts == pc # "dead"

ActionKinds == {"move", "attack", "say", "rest"}

C17_ExecutedExactlyOnce ==
    [][\A p \in PlayerIds :
          (InRegistry(p) /\ InRegistry(p)')
          => /\ pending_actions'[p] # pending_actions[p] =>
                   \/ /\ event'.kind = "command" /\ event'.pid = p
                      /\ event'.result = "true"
                      /\ \E a \in CommandActions :
                            pending_actions'[p] = Append(pending_actions[p], Queued(a))
                   \/ /\ event'.kind \in ActionKinds /\ event'.pid = p
                      /\ pending_actions[p] # <<>>
                      /\ event'.kind = Head(pending_actions[p]).action_type
                      /\ pending_actions'[p] = Tail(pending_actions[p])
             /\ (event'.kind \in ActionKinds /\ event'.pid = p) =>
                   /\ players[idx] = p
                   /\ idx' = idx + 1
                   /\ \A i \in 1..Len(players) : players[i] = p => i = idx
             /\ pc' = "dead" => pending_actions'[p] = <<>>]_vars

\* C18: a disconnect only sets the player's is_online to false; the player
\* stays in the registry until the cleanup step of the next tick, and that
\* cleanup step removes every player whose is_online is false
C18_DisconnectIsDeferred ==
    [][/\ \A p \in PlayerIds :
             (event'.kind = "remove_player" /\ event'.pid = p)
             => /\ InRegistry(p)'
                /\ ~is_online'[p]
                /\ players' = players
       /\ \A p \in PlayerIds :
             (InRegistry(p) /\ ~InRegistry(p)') => (pc = "cleanup" /\ pc' = "idle")
       /\ (pc = "cleanup" /\ pc' = "idle") =>
             \A p \in PlayerIds : InRegistry(p)' <=> (InRegistry(p) /\ is_online[p])]_vars

\* a session whose player is offline or gone from the registry
Orphaned(p) ==
    HasSession(combat_sessions, p) /\ ~(InRegistry(p) /\ is_online[p])

\* C19: once a player who has a session is offline or gone from the
\* registry, the next resolver pass removes the session without an
\* exchange: the session stays without its player until a pass ends it,
\* the pass that visits it makes no exchange for it and marks it, and the
\* end of the pass removes it
C19_OrphanedSessionEnds ==
    [][\A p \in PlayerIds :
          /\ (Orphaned(p) /\ HasSession(combat_sessions', p)) => Orphaned(p)'
          /\ (Orphaned(p) /\ event'.kind \in {"pass", "auto"} /\ event'.pid = p)
             => /\ event'.kind = "pass"
                /\ event'.attacker = "none"
                /\ p \in to_remove'
                /\ room_monsters' = room_monsters
                /\ character' = character
          /\ (pc = "combat" /\ pc' = "cleanup" /\ p \in to_remove)
             => ~HasSession(combat_sessions', p)]_vars

ConnectionKinds == {"command", "add_player", "remove_player", "send_failed"}

C21_QueuedInTickRunsLater ==
    [][\A p \in PlayerIds :
          (event'.kind \in ActionKinds /\ event'.pid = p)
          => current_tick > Head(pending_actions[p]).queued_at]_vars

\* C22: the persisted health of a monster instance is never negative: every
\* value written by update_room_monster_health is >= 0, a killing blow
\* being clamped to 0
C22_MonsterHealthNotNegative ==
    /\ \A m \in InstanceIds :
          room_monsters[m] # NoMonster => room_monsters[m].health >= 0
    /\ event.attacker = "player" => event.new_health >= 0

\* C23: a player's blow does max(1, strength + r - defense) damage with r
\* in 1..6, a monster's blow max(1, attack + r - constitution \div 2) with r
\* in 1..4; every blow does at least 1; strength 10 against defense 3 does
\* 8..13
C23_DamageFormulas ==
    [][/\ event'.attacker = "player" =>
            LET strength == character[event'.pid].strength
                defense == Monsters[room_monsters[event'.target].monster_id].defense
            IN  /\ event'.damage >= 1
                /\ \E r \in 1..6 :
                      event'.damage = IF strength + r - defense >= 1
                                      THEN strength + r - defense ELSE 1
                /\ (strength = 10 /\ defense = 3) => event'.damage \in 8..13
       /\ event'.attacker = "monster" =>
            LET attack == Monsters[room_monsters[event'.target].monster_id].attack
                half == character[event'.pid].constitution \div 2
            IN  /\ event'.damage >= 1
                /\ \E r \in 1..4 :
                      event'.damage = IF attack + r - half >= 1
                                      THEN attack + r - half ELSE 1]_vars

\* strength 10 against the wolf's defense 3 with a six rolled
C23_Witness ==
    /\ event.attacker = "player"
    /\ character[1].strength = 10
    /\ event.target = 2
    /\ event.damage = 13

ExitsSymmetric ==
    \A A \in RoomIds, B \in RoomIds, d \in ValidDirections :
        (d \in DOMAIN rooms[A].exits /\ rooms[A].exits[d] = B)
            => /\ Opposite(d) \in DOMAIN rooms[B].exits
               /\ rooms[B].exits[Opposite(d)] = A

\* C29: exits linked by link_rooms remain symmetric after any later ticks,
\* commands and further link_rooms calls
C29_LinksStaySymmetric == ExitsSymmetric

\* C26: an action enqueued between ticks with tick_delay d >= 1 is executed
\* during the d-th tick after it was enqueued and no earlier (move 1,
\* attack 2, rest 3); one with delay 0 is executed during the next tick
C26_ExecutedAfterDelay ==
    [][\A p \in PlayerIds :
          (event'.kind \in ActionKinds /\ event'.pid = p) =>
              LET action == Head(pending_actions[p])
              IN  IF action.tick_delay >= 1
                  THEN current_tick = action.queued_at + action.tick_delay
                  ELSE current_tick > action.queued_at
                          => current_tick = action.queued_at + 1]_vars

\* C27: when a player with a CombatSession completes a move and the
\* session's monster instance is in the room being left, the instance's
\* room and the session's room_id both become the room moved to
C27_MonsterFollows ==
    [][\A p \in PlayerIds :
          (/\ event'.kind = "move" /\ event'.pid = p /\ event'.result = "moved"
           /\ HasSession(combat_sessions, p)
           /\ LET m == SessionOf(combat_sessions, p).monster_instance_id
              IN  /\ room_monsters[m] # NoMonster
                  /\ room_monsters[m].room_id = character[p].current_room)
          => LET m == SessionOf(combat_sessions, p).monster_instance_id
             IN  /\ character'[p].current_room = event'.dest
                 /\ room_monsters'[m].room_id = event'.dest
                 /\ HasSession(combat_sessions', p)
                 /\ SessionOf(combat_sessions', p).monster_instance_id = m
                 /\ SessionOf(combat_sessions', p).room_id = event'.dest]_vars

\* a player has fled from room 3 into room 1 and the monster has come along
C27_Witness ==
    /\ event.kind = "move" /\ event.result = "moved" /\ event.flee = "pass"
    /\ event.dest = 1
    /\ HasSession(combat_sessions, event.pid)
    /\ SessionOf(combat_sessions, event.pid).room_id = 1
    /\ room_monsters[SessionOf(combat_sessions, event.pid).monster_instance_id].room_id = 1

\* C28: every mutation of a snapshot field (health, experience, level,
\* max_health, current_room) is written back: at the end of every tick the
\* persisted character equals the in-memory snapshot on those fields
C28_SnapshotIsPersisted ==
    pc = "idle" =>
        \A p \in PlayerIds :
            InRegistry(p) =>
                /\ db_character[p].health = character[p].health
                /\ db_character[p].experience = character[p].experience
                /\ db_character[p].level = character[p].level
                /\ db_character[p].max_health = character[p].max_health
                /\ db_character[p].current_room = character[p].current_room

\* the instance _handle_attack went for, 0 when it found none
Chosen == IF event.result = "attacked" THEN event.target ELSE 0

\* C30: an exact case-insensitive name match is chosen whatever
\* its position; otherwise the candidates are exactly the instances whose
\* name contains the query or shares a whitespace-split word with it, and the
\* first enumerated is chosen; with no candidate there is no session and
\* no damage
C30_TargetBySharedWord ==
    [][event'.kind = "attack" /\ event'.result \in {"attacked", "no_target"} =>
          LET p == event'.pid
              q == StrStrip(StrLower(Head(pending_actions[p]).target))
              room_list == GetRoomMonsters(room_monsters, character[p].current_room)
              Name(i) == StrLower(Monsters[room_monsters[room_list[i]].monster_id].name)
              exact == {i \in 1..Len(room_list) : Name(i) = q}
              candidates == {i \in 1..Len(room_list) :
                                \/ IsSubstr(q, Name(i))
                                \/ SplitWords(q) \cap SplitWords(Name(i)) # {}}
          IN  IF exact # {}
              THEN \E i \in exact : Chosen' = room_list[i]
              ELSE IF candidates # {}
              THEN \E i \in candidates :
                      /\ \A j \in candidates : i <= j
                      /\ Chosen' = room_list[i]
              ELSE /\ Chosen' = 0
                   /\ combat_sessions' = combat_sessions
                   /\ room_monsters' = room_monsters]_vars

\* C31: a CombatSession is removed as monster-dead only when the monster
\* instance it is bound to has died: a manual Attack that kills a different
\* instance in the room leaves the player's session in place
C31_SessionEndsWithItsMonster ==
    [][\A p \in PlayerIds :
          (/\ event'.kind = "attack" /\ event'.pid = p
           /\ event'.killed = "monster"
           /\ HasSession(combat_sessions, p)
           /\ SessionOf(combat_sessions, p).monster_instance_id # event'.target)
          => /\ HasSession(combat_sessions', p)
             /\ SessionOf(combat_sessions', p).monster_instance_id
                   = SessionOf(combat_sessions, p).monster_instance_id]_vars

\* C32: no combat exchange ever takes place in a safe-zone room: no
\* CombatSession ever has a room_id whose room has safe_zone = true, also
\* after its player has moved or fled into a safe room with the monster
\* following
C32_NoSessionInSafeZone ==
    \A i \in 1..Len(combat_sessions) :
        ~GetRoom(combat_sessions[i].room_id).safe_zone

\* C33: a player entering the registry through add_player never has a
\* CombatSession: a session left behind when remove_player deleted the
\* player is not inherited when the same user id joins again before the
\* next resolver pass
C33_JoinsWithoutSession ==
    [][event'.kind = "add_player" =>
          ~HasSession(combat_sessions', event'.pid)]_vars

\* C34: in a CombatSession that is not ended the monster eventually
\* attacks: however often the player issues manual Attack actions, an
\* automatic exchange with odd rounds eventually occurs.  Exchanges are made
\* and sessions are ended by the tick task alone, so what the claim needs in
\* every reachable state is a live tick task wherever there is a session
C34_SessionHasLiveTickTask ==
    \A p \in PlayerIds : HasSession(combat_sessions, p) => pc # "dead"

Dies(m) == room_monsters[m] # NoMonster /\ room_monsters'[m] = NoMonster

\* C36: the death of a monster instance awards its experience_reward once, to
\* one player: the step in which an instance dies adds the reward to the
\* experience of the attacker and to nobody else's, an instance dies once, and
\* experience grows in no other step
C36_RewardOnceToOne ==
    [][/\ \A m \in InstanceIds :
             Dies(m) =>
                 \E p \in PlayerIds :
                     /\ event'.pid = p
                     /\ character'[p].experience
                           = character[p].experience
                               + GetMonster(room_monsters[m].monster_id).experience_reward
                     /\ \A q \in PlayerIds \ {p} :
                            character'[q].experience = character[q].experience
       /\ \A m \in InstanceIds :
             room_monsters[m] = NoMonster => room_monsters'[m] = NoMonster
       /\ \A p \in PlayerIds :
             (character[p] # NoChar
                 /\ character'[p].experience > character[p].experience)
                => \E m \in InstanceIds : Dies(m)]_vars

\* a player kills an instance against which another player has a session
C36_Witness ==
    /\ event.killed = "monster"
    /\ room_monsters[event.target] = NoMonster
    /\ \E q \in PlayerIds \ {event.pid} :
          /\ HasSession(combat_sessions, q)
          /\ SessionOf(combat_sessions, q).monster_instance_id = event.target

LastActionTick(cs, p) == SessionOf(cs, p).last_action_tick

\* C38: a CombatSession sees at most one exchange per tick, and a tick in
\* which the player's manual Attack executes performs no automatic exchange
\* for that session: every exchange stamps the session with the current
\* tick, nothing else writes the stamp, and an exchange, manual or automatic,
\* finds the stamp of an earlier tick
C38_OneExchangePerTick ==
    [][\A p \in PlayerIds :
          /\ (/\ event'.pid = p
              /\ \/ event'.kind = "attack" /\ event'.result = "attacked"
                 \/ event'.kind = "auto"
              /\ HasSession(combat_sessions', p))
                => LastActionTick(combat_sessions', p) = current_tick'
          /\ (/\ HasSession(combat_sessions, p)
              /\ HasSession(combat_sessions', p)
              /\ LastActionTick(combat_sessions', p) # LastActionTick(combat_sessions, p))
                => /\ event'.pid = p
                   /\ event'.kind \in {"attack", "auto"}
          /\ (/\ event'.pid = p
              /\ \/ event'.kind = "attack" /\ event'.result = "attacked"
                 \/ event'.kind = "auto"
              /\ HasSession(combat_sessions, p))
                => LastActionTick(combat_sessions, p) < current_tick]_vars

\* the resolver passes over a session that has had automatic exchanges and
\* whose player attacked by hand in this tick, and leaves it alone
C38_Witness ==
    /\ event.kind = "pass"
    /\ event.result = "waiting"
    /\ HasSession(combat_sessions, event.pid)
    /\ SessionOf(combat_sessions, event.pid).rounds >= 1
    /\ LastActionTick(combat_sessions, event.pid) = current_tick

====
